---- MODULE Spec2Model ----
(***************************************************************************)
(* Stock ledger coupled to the purchase (Compra) and sale (Venta) state    *)
(* machines of the ERP backend.                                            *)
(*                                                                         *)
(* The database is modelled by the tables the stock logic touches:         *)
(*   stock    Inventario.stock_actual per product (IntegerField, signed)   *)
(*   movs     the MovimientoInventario rows, in creation order             *)
(*   compras  the Compra rows with their DetalleCompra lines               *)
(*   ventas   the Venta rows with their DetalleVenta lines                 *)
(* Every HTTP handler is one action: the serializer validation, the        *)
(* service call wrapped in transaction.atomic, and the response.  A        *)
(* request that is rejected leaves the tables alone and only records its   *)
(* outcome in ultima.                                                      *)
(***************************************************************************)
EXTENDS Integers, Sequences, FiniteSets, TLC

\* ------------------------------------------------------------------------
\* Bounds of the model
\* ------------------------------------------------------------------------
MaxOps == 3          \* requests served in one behaviour
StockSurtido == 2    \* units of every product in the stocked initial state

Productos == {"p1", "p2"}
Motivos == {"motivo del usuario"}
MotivoEliminacion == "Eliminación directa por el usuario"

Cantidades == {1, 2}
StocksNuevos == {0, 1, 2}

\* A line as a client sends it: producto_id, cantidad and the unit price
\* (precio_compra / precio_unitario).
\* Line lists a client sends: one line, two lines on different products, or
\* the same line twice (validate_detalles of the create serializers rejects
\* the last; CompraUpdateSerializer has no validate_detalles).
L(p, cant, precio) == [producto |-> p, cantidad |-> cant, precio |-> precio]

ListasDeLineas ==
    { <<L("p1", 1, 3)>>, <<L("p1", 2, 4)>>, <<L("p2", 1, 5)>>,
      <<L("p1", 1, 3), L("p2", 2, 5)>>,
      <<L("p1", 2, 4), L("p1", 2, 4)>> }

\* The Producto rows: the products of the inventories, all active
\* (estado = True), and a product that exists with estado = False.
ProductosInactivos == {"p3"}
Catalogo == Productos \cup ProductosInactivos

\* Requests that try the validation of lines: besides the lists above, a
\* line on the inactive product, on a product that does not exist, with
\* cantidad 0, with unit price 0, and a good line followed by a bad one.
ListasParaValidar ==
    ListasDeLineas
    \cup { <<L("p3", 1, 3)>>, <<L("p9", 1, 3)>>, <<L("p1", 0, 3)>>, <<L("p1", 1, 0)>>,
           <<L("p1", 1, 3), L("p3", 1, 3)>>, <<L("p1", 1, 3), L("p2", 0, 5)>> }

SinDuplicados(dets) ==
    \A i, j \in 1..Len(dets) : dets[i].producto = dets[j].producto => i = j

NADA == "NADA"       \* a field absent from the request body (null in a row)
SinDetalles == <<>>  \* the key "detalles" absent from the request body

VARIABLES stock, movs, compras, ventas, ultimaVenta, usuarios, ultima, previo, nops, tx

db == <<stock, movs, compras, ventas, ultimaVenta, usuarios>>
vars == <<stock, movs, compras, ventas, ultimaVenta, usuarios, ultima, previo, nops, tx>>

\* ------------------------------------------------------------------------
\* Rows
\* ------------------------------------------------------------------------
\* MovimientoInventario.objects.create(producto, tipo_movimiento, cantidad,
\* referencia): the reference names the causing document and the cause.
Movimiento(p, tipo, cant, doc, id, causa) ==
    [producto |-> p, tipo_movimiento |-> tipo, cantidad |-> cant,
     doc |-> doc, id |-> id, causa |-> causa]

\* Outcome of the last request: handler, id of the order it names (0 when it
\* names none) and result.
Resultado(op, id, res) == [op |-> op, id |-> id, res |-> res]

\* ------------------------------------------------------------------------
\* Ledger helpers
\* ------------------------------------------------------------------------
RECURSIVE SumaMovimientos(_, _, _)
\* Sum('cantidad') over the movements of product p with the given type.
SumaMovimientos(ms, p, tipo) ==
    IF ms = <<>> THEN 0
    ELSE (IF Head(ms).producto = p /\ Head(ms).tipo_movimiento = tipo
          THEN Head(ms).cantidad ELSE 0)
         + SumaMovimientos(Tail(ms), p, tipo)

RECURSIVE AplicarSinSigno(_, _, _, _, _, _, _)
\* A line loop that always adds the quantity, whatever the direction.
AplicarSinSigno(inv, ms, dets, tipo, doc, id, causa) ==
    IF dets = <<>> THEN [stock |-> inv, movs |-> ms]
    ELSE LET d == Head(dets)
         IN AplicarSinSigno([inv EXCEPT ![d.producto] = @ + d.cantidad],
                  Append(ms, Movimiento(d.producto, tipo, d.cantidad, doc, id, causa)),
                  Tail(dets), tipo, doc, id, causa)

RECURSIVE AplicarLineasSegunStock(_, _, _, _, _, _, _)
\* A line loop whose movements record the stock the line leaves instead of
\* the line's cantidad.
AplicarLineasSegunStock(inv, ms, dets, tipo, doc, id, causa) ==
    IF dets = <<>> THEN [stock |-> inv, movs |-> ms]
    ELSE LET d == Head(dets)
             delta == IF tipo = "ENTRADA" THEN d.cantidad ELSE 0 - d.cantidad
         IN AplicarLineasSegunStock([inv EXCEPT ![d.producto] = @ + delta],
                Append(ms, Movimiento(d.producto, tipo, inv[d.producto] + delta,
                                      doc, id, causa)),
                Tail(dets), tipo, doc, id, causa)

RECURSIVE AplicarLineasATodos(_, _, _, _, _, _, _)
\* A line loop whose save writes the line's change to every inventory row.
AplicarLineasATodos(inv, ms, dets, tipo, doc, id, causa) ==
    IF dets = <<>> THEN [stock |-> inv, movs |-> ms]
    ELSE LET d == Head(dets)
             delta == IF tipo = "ENTRADA" THEN d.cantidad ELSE 0 - d.cantidad
         IN AplicarLineasATodos([q \in DOMAIN inv |-> inv[q] + delta],
                Append(ms, Movimiento(d.producto, tipo, d.cantidad, doc, id, causa)),
                Tail(dets), tipo, doc, id, causa)

RECURSIVE AplicarLineas(_, _, _, _, _, _, _)
\* The "for detalle in ....detalles.all()" loop shared by the four order
\* services: per line, inventario.stock_actual +=/-= cantidad, save, and one
\* MovimientoInventario of the same type and quantity.
AplicarLineas(inv, ms, dets, tipo, doc, id, causa) ==
    IF dets = <<>> THEN [stock |-> inv, movs |-> ms]
    ELSE LET d == Head(dets)
             delta == IF tipo = "ENTRADA" THEN d.cantidad ELSE 0 - d.cantidad
         IN AplicarLineas([inv EXCEPT ![d.producto] = @ + delta],
                Append(ms, Movimiento(d.producto, tipo, d.cantidad, doc, id, causa)),
                Tail(dets), tipo, doc, id, causa)

\* Requests in flight when they are served concurrently: one per worker of
\* the application server, each in its own database transaction
\* (transaction.atomic, READ COMMITTED).  A transaction keeps what it read
\* (estado and lines of the order, the stock of the current line) and what it
\* wrote and has not committed (wstock for the rows in sucio, wmovs, westado).
NumeroNulo == [prefijo |-> "", digitos |-> <<>>]

Workers == {1, 2}

TxLibre ==
    [op |-> "libre", pc |-> "libre", id |-> 0, motivo |-> NADA, estado |-> NADA,
     dets |-> <<>>, i |-> 0, leido |-> 0, nuevo |-> 0,
     wstock |-> [p \in Productos |-> 0], sucio |-> {}, wmovs |-> <<>>,
     westado |-> NADA, numero |-> NumeroNulo]

\* The Usuario rows, each with the names of the roles its UsuarioRol rows
\* give it: at the start an administrator and a seller.
UsuariosIniciales ==
    << [username |-> "admin", roles |-> {"Administrador"}],
       [username |-> "vendedor", roles |-> {"Vendedor"}] >>

SinPrevio ==
    [op |-> "ninguna", id |-> 0, stock |-> [p \in Productos |-> 0], cancelada |-> FALSE]

\* ------------------------------------------------------------------------
\* Initial state: the products exist, each with the Inventario row that
\* ProductoCreateSerializer.create makes for it (stock_actual = 0); no
\* movement, no order.
\* ------------------------------------------------------------------------
Init ==
    /\ stock = [p \in Productos |-> 0]
    /\ movs = <<>>
    /\ compras = <<>>
    /\ ventas = <<>>
    /\ ultimaVenta = 0
    /\ usuarios = UsuariosIniciales
    /\ ultima = Resultado("ninguna", 0, "ok")
    /\ previo = SinPrevio
    /\ nops = 0
    /\ tx = [w \in Workers |-> TxLibre]

\* Bookkeeping common to every request: its outcome is kept in ultima.
\* previo remembers the stock a successful confirm found, through the
\* request that follows it when that request is the successful cancel of the
\* same order (cancelada becomes TRUE); any other request clears it.
Responder(op, id, res) ==
    /\ nops < MaxOps
    /\ nops' = nops + 1
    /\ ultima' = Resultado(op, id, res)
    /\ previo' =
         IF res = "ok" /\ op \in {"confirmar_compra", "completar_venta"}
         THEN [op |-> op, id |-> id, stock |-> stock, cancelada |-> FALSE]
         ELSE IF /\ res = "ok" /\ ~previo.cancelada /\ id = previo.id
                 /\ \/ op = "anular_compra" /\ previo.op = "confirmar_compra"
                    \/ op = "cancelar_venta" /\ previo.op = "completar_venta"
         THEN [previo EXCEPT !.cancelada = TRUE]
         ELSE SinPrevio
    /\ UNCHANGED tx

\* A rejected request: the transaction is rolled back (or never started).
Rechazar(op, id, res) ==
    /\ Responder(op, id, res)
    /\ UNCHANGED db

\* ------------------------------------------------------------------------
\* Purchases (apps/compras)
\* ------------------------------------------------------------------------
\* A line row whose subtotal is the unit price alone.
DetalleGuardadoSinCantidad(d) ==
    [producto |-> d.producto, cantidad |-> d.cantidad, precio |-> d.precio,
     subtotal |-> d.precio]

\* DetalleCompra.save / DetalleVenta.save: the row of a line, with
\* "self.subtotal = self.cantidad * self.precio_compra".
DetalleGuardado(d) ==
    [producto |-> d.producto, cantidad |-> d.cantidad, precio |-> d.precio,
     subtotal |-> d.cantidad * d.precio]

\* The rows created for the lines of a request, in order.
GuardarLineas(dets) == [i \in 1..Len(dets) |-> DetalleGuardado(dets[i])]

RECURSIVE recalcular_total(_)
\* Compra.recalcular_total: Sum(F("cantidad") * F("precio_compra")) over the
\* rows of the purchase, 0 when it has none.
recalcular_total(filas) ==
    IF filas = <<>> THEN 0
    ELSE Head(filas).cantidad * Head(filas).precio + recalcular_total(Tail(filas))

RECURSIVE Digitos(_)
\* The decimal digits of n >= 0, most significant first.
Digitos(n) == IF n < 10 THEN <<n>> ELSE Append(Digitos(n \div 10), n % 10)

RECURSIVE Rellenar(_, _)
\* Zero padding on the left up to the width; longer numbers keep their digits.
Rellenar(ds, ancho) == IF Len(ds) >= ancho THEN ds ELSE Rellenar(<<0>> \o ds, ancho)

\* f"COMP-{new_number:05d}"
FormatoNumero(n) == [prefijo |-> "COMP", digitos |-> Rellenar(Digitos(n), 5)]

RECURSIVE ValorDe(_)
\* int(numero_compra.split("-")[-1])
ValorDe(ds) ==
    IF ds = <<>> THEN 0 ELSE ValorDe(SubSeq(ds, 1, Len(ds) - 1)) * 10 + ds[Len(ds)]

\* Compra.generar_numero_compra: the number after that of the purchase with
\* the highest id among the rows the query sees, COMP-00001 when it sees none.
generar_numero_compra(filas) ==
    IF filas = <<>> THEN FormatoNumero(1)
    ELSE FormatoNumero(ValorDe(filas[Len(filas)].numero_compra.digitos) + 1)

Compra(est, filas, motivo, total, numero) ==
    [estado |-> est, detalles |-> filas, motivo_anulacion |-> motivo, total |-> total,
     numero_compra |-> numero]

\* DetalleCompraWriteSerializer: producto_id must be a Producto row (the
\* check of its estado is commented out), cantidad >= 1, precio_compra > 0.
DetalleCompraValido(d) ==
    /\ d.producto \in Catalogo
    /\ d.cantidad >= 1
    /\ d.precio > 0

\* POST /api/compras/: CompraCreateSerializer, then CompraService.crear_compra.
\* The purchase is always created PENDIENTE and touches no inventory.
crear_compra(dets) ==
    IF ~(SinDuplicados(dets) /\ \A i \in 1..Len(dets) : DetalleCompraValido(dets[i]))
    THEN Rechazar("crear_compra", Len(compras) + 1, "ValidationError")
    ELSE /\ compras' = Append(compras,
                            Compra("PENDIENTE", GuardarLineas(dets), NADA,
                                   recalcular_total(GuardarLineas(dets)),
                                   generar_numero_compra(compras)))
         /\ UNCHANGED <<stock, movs, ventas, ultimaVenta, usuarios>>
         /\ Responder("crear_compra", Len(compras) + 1, "ok")

\* "if compra.estado != 'PENDIENTE': raise CompraStateError"
CompraConfirmable(c) == compras[c].estado = "PENDIENTE"

\* POST /api/compras/{id}/confirmar/: CompraService.confirmar_compra.
confirmar_compra(c) ==
    /\ c \in DOMAIN compras
    /\ IF ~CompraConfirmable(c)
       THEN Rechazar("confirmar_compra", c, "CompraStateError")
       ELSE LET r == AplicarLineas(stock, movs, compras[c].detalles,
                                   "ENTRADA", "COMPRA", c, "CONFIRMACION")
            IN /\ stock' = r.stock
               /\ movs' = r.movs
               /\ compras' = [compras EXCEPT ![c].estado = "REALIZADA"]
               /\ UNCHANGED <<ventas, ultimaVenta, usuarios>>
               /\ Responder("confirmar_compra", c, "ok")

\* An annulment that accepts every purchase.
AnulableSiempre(c) == TRUE

\* "if compra.estado == 'ANULADA': raise CompraStateError"
CompraAnulable(c) == compras[c].estado # "ANULADA"

\* "if compra.estado == 'REALIZADA':" only a received purchase is reverted.
CompraRevierteStock(c) == compras[c].estado = "REALIZADA"

\* The validation loop of anular_compra: every line is compared with the
\* stock read at that moment; nothing has been written yet.
StockSuficienteParaAnular(inv, dets) ==
    \A i \in 1..Len(dets) : inv[dets[i].producto] >= dets[i].cantidad

\* CompraService.anular_compra(compra_id, usuario, motivo).
anular_compra(c, motivo) ==
    /\ c \in DOMAIN compras
    /\ IF ~CompraAnulable(c)
       THEN Rechazar("anular_compra", c, "CompraStateError")
       ELSE IF CompraRevierteStock(c)
       THEN IF ~StockSuficienteParaAnular(stock, compras[c].detalles)
            THEN Rechazar("anular_compra", c, "InventarioInsuficienteError")
            ELSE LET r == AplicarLineas(stock, movs, compras[c].detalles,
                                        "SALIDA", "COMPRA", c, "ANULACION")
                 IN /\ stock' = r.stock
                    /\ movs' = r.movs
                    /\ compras' = [compras EXCEPT ![c].estado = "ANULADA",
                                              ![c].motivo_anulacion = motivo]
                    /\ UNCHANGED <<ventas, ultimaVenta, usuarios>>
                    /\ Responder("anular_compra", c, "ok")
       ELSE /\ compras' = [compras EXCEPT ![c].estado = "ANULADA",
                                              ![c].motivo_anulacion = motivo]
            /\ UNCHANGED <<stock, movs, ventas, ultimaVenta, usuarios>>
            /\ Responder("anular_compra", c, "ok")

\* POST /api/compras/{id}/anular/ with a validated motivo.
CompraViewSet_anular(c) == \E m \in Motivos : anular_compra(c, m)

\* DELETE /api/compras/{id}/: the view annuls the purchase.
CompraViewSet_destroy(c) == anular_compra(c, MotivoEliminacion)

\* CompraUpdateSerializer.validate_estado, run when the body has "estado".
CompraValidateEstado(c, est) ==
    /\ compras[c].estado # "ANULADA"
    /\ ~(compras[c].estado = "REALIZADA" /\ est = "PENDIENTE")

\* CompraUpdateSerializer.validate.
CompraValidate(c, dets) ==
    /\ compras[c].estado # "ANULADA"
    /\ (dets # SinDetalles => compras[c].estado = "PENDIENTE")

\* PUT/PATCH /api/compras/{id}/: CompraUpdateSerializer validates, then
\* update() sets the simple fields, replaces the lines when the body has
\* "detalles" (every DetalleCompra created recalculates the total of the
\* purchase), and saves.  No inventory is read or written.
CompraViewSet_update(c, est, dets) ==
    /\ c \in DOMAIN compras
    /\ IF ~((est # NADA => CompraValidateEstado(c, est)) /\ CompraValidate(c, dets))
       THEN Rechazar("update_compra", c, "ValidationError")
       ELSE /\ compras' = [compras EXCEPT
                  ![c].estado = IF est = NADA THEN @ ELSE est,
                  ![c].detalles = IF dets = SinDetalles THEN @ ELSE GuardarLineas(dets),
                  ![c].total = IF dets = SinDetalles THEN @
                               ELSE recalcular_total(GuardarLineas(dets))]
            /\ UNCHANGED <<stock, movs, ventas, ultimaVenta, usuarios>>
            /\ Responder("update_compra", c, "ok")

\* ------------------------------------------------------------------------
\* Sales (apps/ventas)
\* ------------------------------------------------------------------------
RECURSIVE TotalDeLineas(_)
\* The total crear_venta computes from the lines of the request before it
\* creates the sale: the sum of precio * cantidad.
TotalDeLineas(dets) ==
    IF dets = <<>> THEN 0
    ELSE Head(dets).precio * Head(dets).cantidad + TotalDeLineas(Tail(dets))

Venta(est, filas, total) == [estado |-> est, detalles |-> filas, total |-> total]

\* DetalleVentaWriteSerializer: producto_id must be an active Producto row,
\* cantidad >= 1, the product must have an inventory whose stock, read when
\* the request is validated, covers the cantidad, and the price must be > 0.
DetalleVentaValido(inv, d) ==
    /\ d.producto \in Catalogo
    /\ d.producto \notin ProductosInactivos
    /\ d.cantidad >= 1
    /\ d.producto \in DOMAIN inv
    /\ inv[d.producto] >= d.cantidad
    /\ d.precio > 0

\* POST /api/ventas/: VentaCreateSerializer, then VentaService.crear_venta.
\* A sale created COMPLETADA takes its lines out of the inventory at once.
crear_venta(dets, est) ==
    LET v == ultimaVenta + 1 IN
    IF ~(SinDuplicados(dets) /\ \A i \in 1..Len(dets) : DetalleVentaValido(stock, dets[i]))
    THEN Rechazar("crear_venta", v, "ValidationError")
    ELSE LET r == IF est = "COMPLETADA"
                  THEN AplicarLineas(stock, movs, dets, "SALIDA", "VENTA", v, "VENTA")
                  ELSE [stock |-> stock, movs |-> movs]
         IN /\ ventas' = [x \in DOMAIN ventas \cup {v} |->
                              IF x = v THEN Venta(est, GuardarLineas(dets), TotalDeLineas(dets))
                              ELSE ventas[x]]
            /\ ultimaVenta' = v
            /\ stock' = r.stock
            /\ movs' = r.movs
            /\ UNCHANGED <<compras, usuarios>>
            /\ Responder("crear_venta", v, "ok")

\* A completion that accepts every sale that is not CANCELADA.
CompletableSiNoCancelada(v) == ventas[v].estado # "CANCELADA"

\* "if venta.estado != 'PENDIENTE': raise ValueError"
VentaCompletable(v) == ventas[v].estado = "PENDIENTE"

\* POST /api/ventas/{id}/completar/: VentaService.completar_venta.  The
\* loop subtracts every line and saves; it compares nothing with the stock.
completar_venta(v) ==
    /\ v \in DOMAIN ventas
    /\ IF ~VentaCompletable(v)
       THEN Rechazar("completar_venta", v, "ValueError")
       ELSE LET r == AplicarLineas(stock, movs, ventas[v].detalles,
                                   "SALIDA", "VENTA", v, "VENTA")
            IN /\ stock' = r.stock
               /\ movs' = r.movs
               /\ ventas' = [ventas EXCEPT ![v].estado = "COMPLETADA"]
               /\ UNCHANGED <<compras, ultimaVenta, usuarios>>
               /\ Responder("completar_venta", v, "ok")

\* "if venta.estado == 'CANCELADA': raise ValueError"
VentaCancelable(v) == ventas[v].estado # "CANCELADA"

\* A cancellation that returns the lines of every sale it cancels.
DevuelveSiempre(v) == TRUE

\* "if venta.estado == 'COMPLETADA':" only a completed sale returns stock.
VentaDevuelveStock(v) == ventas[v].estado = "COMPLETADA"

\* POST /api/ventas/{id}/cancelar/: VentaService.cancelar_venta.  The
\* motivo goes into the movement reference only; Venta has no field for it.
cancelar_venta(v, motivo) ==
    /\ v \in DOMAIN ventas
    /\ IF ~VentaCancelable(v)
       THEN Rechazar("cancelar_venta", v, "ValueError")
       ELSE LET r == IF VentaDevuelveStock(v)
                     THEN AplicarLineas(stock, movs, ventas[v].detalles,
                                        "ENTRADA", "VENTA", v, "CANCELACION")
                     ELSE [stock |-> stock, movs |-> movs]
            IN /\ stock' = r.stock
               /\ movs' = r.movs
               /\ ventas' = [ventas EXCEPT ![v].estado = "CANCELADA"]
               /\ UNCHANGED <<compras, ultimaVenta, usuarios>>
               /\ Responder("cancelar_venta", v, "ok")

\* A validation of estado that only refuses COMPLETADA -> CANCELADA.
VentaValidateEstadoSoloCompletada(v, est) ==
    ~(ventas[v].estado = "COMPLETADA" /\ est = "CANCELADA")

\* VentaUpdateSerializer.validate_estado, run when the body has "estado".
VentaValidateEstado(v, est) ==
    /\ ventas[v].estado # "CANCELADA"
    /\ ~(ventas[v].estado = "COMPLETADA" /\ est = "CANCELADA")

\* PUT/PATCH /api/ventas/{id}/: the only writable field is estado, and the
\* ModelSerializer saves it as given; no inventory is read or written.
VentaViewSet_update(v, est) ==
    /\ v \in DOMAIN ventas
    /\ IF est # NADA /\ ~VentaValidateEstado(v, est)
       THEN Rechazar("update_venta", v, "ValidationError")
       ELSE /\ ventas' = [ventas EXCEPT ![v].estado = IF est = NADA THEN @ ELSE est]
            /\ UNCHANGED <<stock, movs, compras, ultimaVenta, usuarios>>
            /\ Responder("update_venta", v, "ok")

\* A deletion that refuses only the COMPLETADA sales.
EliminableSiNoCompletada(v) == ventas[v].estado # "COMPLETADA"

\* "if instance.estado != 'PENDIENTE': return Response(..., 400)"
VentaEliminable(v) == ventas[v].estado = "PENDIENTE"

\* DELETE /api/ventas/{id}/: only a PENDIENTE sale is deleted (its lines
\* go with it, on_delete=CASCADE).
VentaViewSet_destroy(v) ==
    /\ v \in DOMAIN ventas
    /\ IF ~VentaEliminable(v)
       THEN Rechazar("destroy_venta", v, "EstadoError")
       ELSE /\ ventas' = [x \in DOMAIN ventas \ {v} |-> ventas[x]]
            /\ UNCHANGED <<stock, movs, compras, ultimaVenta, usuarios>>
            /\ Responder("destroy_venta", v, "ok")

\* ------------------------------------------------------------------------
\* Manual inventory operations (apps/inventario)
\* ------------------------------------------------------------------------
\* POST /api/inventario/movimientos/ with tipo ENTRADA.
registrar_entrada(p, cant) ==
    /\ movs' = Append(movs, Movimiento(p, "ENTRADA", cant, "MANUAL", 0, "ENTRADA"))
    /\ stock' = [stock EXCEPT ![p] = @ + cant]
    /\ UNCHANGED <<compras, ventas, ultimaVenta, usuarios>>
    /\ Responder("registrar_entrada", 0, "ok")

\* "if inventario.stock_actual < cantidad: raise ValueError" (the serializer
\* makes the same comparison before the service does).
SalidaPermitida(inv, p, cant) == inv[p] >= cant

\* POST /api/inventario/movimientos/ with tipo SALIDA.
registrar_salida(p, cant) ==
    IF ~SalidaPermitida(stock, p, cant)
    THEN Rechazar("registrar_salida", 0, "ValueError")
    ELSE /\ movs' = Append(movs, Movimiento(p, "SALIDA", cant, "MANUAL", 0, "SALIDA"))
         /\ stock' = [stock EXCEPT ![p] = @ - cant]
         /\ UNCHANGED <<compras, ventas, ultimaVenta, usuarios>>
         /\ Responder("registrar_salida", 0, "ok")

Abs(n) == IF n < 0 THEN 0 - n ELSE n

\* An adjustment that records the new stock as the movement's quantity.
MovimientoDeAjusteSinDelta(p, stock_anterior, stock_nuevo) ==
    Movimiento(p, IF stock_nuevo - stock_anterior > 0 THEN "ENTRADA" ELSE "SALIDA",
               stock_nuevo, "AJUSTE", 0, "AJUSTE")

\* An adjustment movement that is always a SALIDA.
MovimientoDeAjusteSiempreSalida(p, stock_anterior, stock_nuevo) ==
    Movimiento(p, "SALIDA", Abs(stock_nuevo - stock_anterior), "AJUSTE", 0, "AJUSTE")

\* The movement ajustar_stock records: ENTRADA when the difference is
\* positive, SALIDA otherwise (also for a difference of 0), abs(diferencia).
MovimientoDeAjuste(p, stock_anterior, stock_nuevo) ==
    LET diferencia == stock_nuevo - stock_anterior
    IN Movimiento(p, IF diferencia > 0 THEN "ENTRADA" ELSE "SALIDA",
                  Abs(diferencia), "AJUSTE", 0, "AJUSTE")

\* POST /api/inventario/productos/{id}/ajustar_stock/ (stock_nuevo >= 0 by
\* AjusteInventarioSerializer): InventarioService.ajustar_stock.
ajustar_stock(p, stock_nuevo) ==
    /\ stock' = [stock EXCEPT ![p] = stock_nuevo]
    /\ movs' = Append(movs, MovimientoDeAjuste(p, stock[p], stock_nuevo))
    /\ UNCHANGED <<compras, ventas, ultimaVenta, usuarios>>
    /\ Responder("ajustar_stock", 0, "ok")

\* MovimientoInventarioViewSet.http_method_names: the methods the view
\* dispatches; any other is answered 405 before a handler runs.
MetodosPermitidos == {"get", "post", "head", "options"}

\* A movement view that dispatches every method.
MetodoSiemprePermitido(metodo) == TRUE

MetodoPermitido(metodo) == metodo \in MetodosPermitidos

\* PUT / PATCH / DELETE /api/inventario/movimientos/{i}/.  The handlers the
\* ModelViewSet inherits (update, partial_update, destroy) would rewrite or
\* delete row i; the dispatch refuses the method first.
MovimientoInventarioViewSet_detalle(i, metodo, cant) ==
    /\ i \in 1..Len(movs)
    /\ IF ~MetodoPermitido(metodo)
       THEN Rechazar("movimiento_detalle", 0, "MethodNotAllowed")
       ELSE /\ movs' = IF metodo = "delete"
                       THEN SubSeq(movs, 1, i - 1) \o SubSeq(movs, i + 1, Len(movs))
                       ELSE [movs EXCEPT ![i].cantidad = cant]
            /\ UNCHANGED <<stock, compras, ventas, ultimaVenta, usuarios>>
            /\ Responder("movimiento_detalle", 0, "ok")

\* ------------------------------------------------------------------------
\* Requests served one at a time
\* ------------------------------------------------------------------------
EstadosCompra == {"PENDIENTE", "REALIZADA", "ANULADA"}
EstadosVenta == {"PENDIENTE", "COMPLETADA", "CANCELADA"}

Next ==
    \/ \E dets \in ListasDeLineas : crear_compra(dets)
    \/ \E c \in DOMAIN compras : confirmar_compra(c)
    \/ \E c \in DOMAIN compras : CompraViewSet_anular(c)
    \/ \E c \in DOMAIN compras : CompraViewSet_destroy(c)
    \/ \E c \in DOMAIN compras, est \in EstadosCompra \cup {NADA},
          dets \in ListasDeLineas \cup {SinDetalles} : CompraViewSet_update(c, est, dets)
    \/ \E dets \in ListasDeLineas, est \in {"PENDIENTE", "COMPLETADA"} :
          crear_venta(dets, est)
    \/ \E v \in DOMAIN ventas : completar_venta(v)
    \/ \E v \in DOMAIN ventas, m \in Motivos : cancelar_venta(v, m)
    \/ \E v \in DOMAIN ventas, est \in EstadosVenta \cup {NADA} :
          VentaViewSet_update(v, est)
    \/ \E v \in DOMAIN ventas : VentaViewSet_destroy(v)
    \/ \E p \in Productos, cant \in Cantidades : registrar_entrada(p, cant)
    \/ \E p \in Productos, cant \in Cantidades : registrar_salida(p, cant)
    \/ \E p \in Productos, n \in StocksNuevos : ajustar_stock(p, n)

Spec == Init /\ [][Next]_vars

\* The same program, observed from the state two entries of 2 units leave
\* (registrar_entrada("p1", 2), then registrar_entrada("p2", 2) from Init), so
\* that sales can be created from the first request on.
InitSurtido ==
    /\ stock = [p \in Productos |-> StockSurtido]
    /\ movs = <<Movimiento("p1", "ENTRADA", StockSurtido, "MANUAL", 0, "ENTRADA"),
                Movimiento("p2", "ENTRADA", StockSurtido, "MANUAL", 0, "ENTRADA")>>
    /\ compras = <<>>
    /\ ventas = <<>>
    /\ ultimaVenta = 0
    /\ usuarios = UsuariosIniciales
    /\ ultima = Resultado("registrar_entrada", 0, "ok")
    /\ previo = SinPrevio
    /\ nops = 0
    /\ tx = [w \in Workers |-> TxLibre]

SpecSurtido == InitSurtido /\ [][Next]_vars

\* The same requests, together with the attempts to modify or delete a
\* movement through its endpoint.
NextHistorial ==
    \/ Next
    \/ \E i \in 1..Len(movs), metodo \in {"put", "patch", "delete"}, cant \in Cantidades :
          MovimientoInventarioViewSet_detalle(i, metodo, cant)

SpecHistorial == InitSurtido /\ [][NextHistorial]_vars

\* ------------------------------------------------------------------------
\* The same services run concurrently
\* ------------------------------------------------------------------------
\* None of the services takes a lock (no select_for_update): a SELECT returns
\* the last committed row, or the transaction's own uncommitted write; an
\* UPDATE (Model.save) writes the value computed in Python and waits only
\* while another open transaction has written the same row.
OpsCompra == {"confirmar_compra", "anular_compra"}
OpsVenta == {"completar_venta", "cancelar_venta"}
OpsOrden == OpsCompra \cup OpsVenta

DocDe(op) == IF op \in OpsCompra THEN "COMPRA" ELSE "VENTA"

\* Direction of the movements a service records for its lines.
TipoDe(op) ==
    IF op \in {"confirmar_compra", "cancelar_venta", "registrar_entrada"}
    THEN "ENTRADA" ELSE "SALIDA"

CausaDe(op) ==
    CASE op = "confirmar_compra" -> "CONFIRMACION"
      [] op = "anular_compra" -> "ANULACION"
      [] op = "completar_venta" -> "VENTA"
      [] op = "cancelar_venta" -> "CANCELACION"
      [] op = "registrar_entrada" -> "ENTRADA"
      [] op = "registrar_salida" -> "SALIDA"
      [] OTHER -> "AJUSTE"

\* The estado the service saves on the order when it succeeds.
EstadoFinal(op) ==
    CASE op = "confirmar_compra" -> "REALIZADA"
      [] op = "anular_compra" -> "ANULADA"
      [] op = "completar_venta" -> "COMPLETADA"
      [] OTHER -> "CANCELADA"

Libres == \A w \in Workers : tx[w].op = "libre"

\* The request goes to the first idle worker.
WorkerLibre(w) ==
    /\ tx[w].op = "libre"
    /\ \A o \in Workers : o < w => tx[o].op # "libre"

\* A request enters its view and opens its transaction.
TxIniciar(w, op, id, motivo, dets, nuevo) ==
    /\ WorkerLibre(w)
    /\ nops < MaxOps
    /\ nops' = nops + 1
    /\ tx' = [tx EXCEPT ![w] =
                 [TxLibre EXCEPT !.op = op, !.id = id, !.motivo = motivo,
                                 !.dets = dets, !.nuevo = nuevo, !.i = 1,
                                 !.pc = IF op \in OpsOrden THEN "orden" ELSE "inventario"]]
    /\ UNCHANGED <<db, ultima, previo>>

\* The service raises: the transaction is rolled back and the view answers
\* with the error.  Every raise comes before the transaction's first write.
TxRechazar(w, res) ==
    /\ tx' = [tx EXCEPT ![w] = TxLibre]
    /\ ultima' = Resultado(tx[w].op, tx[w].id, res)
    /\ previo' = SinPrevio
    /\ UNCHANGED <<db, nops>>

\* The state error a service raises for the estado it read, or "ok".
GuardaDeEstado(op, est) ==
    CASE op = "confirmar_compra" ->
           IF est # "PENDIENTE" THEN "CompraStateError" ELSE "ok"
      [] op = "anular_compra" ->
           IF est = "ANULADA" THEN "CompraStateError" ELSE "ok"
      [] op = "completar_venta" ->
           IF est # "PENDIENTE" THEN "ValueError" ELSE "ok"
      [] OTHER ->
           IF est = "CANCELADA" THEN "ValueError" ELSE "ok"

\* Compra/Venta.objects.prefetch_related('detalles__producto').get(id=...)
\* and the check of estado that follows it.
TxLeerOrden(w) ==
    LET t == tx[w]
        fila == IF t.op \in OpsCompra THEN compras[t.id] ELSE ventas[t.id]
    IN /\ t.pc = "orden"
       /\ IF GuardaDeEstado(t.op, fila.estado) # "ok"
          THEN TxRechazar(w, GuardaDeEstado(t.op, fila.estado))
          ELSE /\ tx' = [tx EXCEPT ![w].estado = fila.estado,
                                   ![w].dets = fila.detalles,
                                   ![w].pc =
                                      IF t.op \in {"anular_compra", "cancelar_venta"}
                                         /\ fila.estado = "PENDIENTE"
                                      THEN "guardar"
                                      ELSE IF t.op = "anular_compra" THEN "validar"
                                      ELSE "inventario"]
               /\ UNCHANGED <<db, ultima, previo, nops>>

\* Inventario.objects.get(producto=...) inside transaction w.
LeerStock(w, p) == IF p \in tx[w].sucio THEN tx[w].wstock[p] ELSE stock[p]

\* The first loop of anular_compra: one line's stock is read and compared.
TxValidarStock(w) ==
    LET t == tx[w]
        d == t.dets[t.i]
    IN /\ t.pc = "validar"
       /\ IF LeerStock(w, d.producto) < d.cantidad
          THEN TxRechazar(w, "InventarioInsuficienteError")
          ELSE /\ tx' = [tx EXCEPT ![w].i = IF t.i < Len(t.dets) THEN t.i + 1 ELSE 1,
                                   ![w].pc = IF t.i < Len(t.dets) THEN "validar"
                                             ELSE "inventario"]
               /\ UNCHANGED <<db, ultima, previo, nops>>

\* The inventory row of the current line is read into the Python object;
\* registrar_salida compares it with the quantity asked for.
TxLeerInventario(w) ==
    LET t == tx[w]
        d == t.dets[t.i]
    IN /\ t.pc = "inventario"
       /\ IF t.op = "registrar_salida" /\ LeerStock(w, d.producto) < d.cantidad
          THEN TxRechazar(w, "ValueError")
          ELSE /\ tx' = [tx EXCEPT ![w].leido = LeerStock(w, d.producto),
                                   ![w].pc = "escribir"]
               /\ UNCHANGED <<db, ultima, previo, nops>>

\* The UPDATE of an inventory row waits while another open transaction has
\* an uncommitted write on it.
FilaInventarioLibre(w, p) == \A o \in Workers \ {w} : p \notin tx[o].sucio

\* inventario.stock_actual +=/-= cantidad (or = stock_nuevo) on the object
\* read before; save() writes that number.
ValorAGuardar(w) ==
    LET t == tx[w]
        d == t.dets[t.i]
    IN IF t.op = "ajustar_stock" THEN t.nuevo
       ELSE IF TipoDe(t.op) = "ENTRADA" THEN t.leido + d.cantidad
       ELSE t.leido - d.cantidad

\* inventario.save() and MovimientoInventario.objects.create(...) of the
\* current line, both uncommitted.
TxEscribirInventario(w) ==
    LET t == tx[w]
        d == t.dets[t.i]
        m == IF t.op = "ajustar_stock"
             THEN MovimientoDeAjuste(d.producto, t.leido, t.nuevo)
             ELSE Movimiento(d.producto, TipoDe(t.op), d.cantidad,
                             IF t.op \in OpsOrden THEN DocDe(t.op) ELSE "MANUAL",
                             t.id, CausaDe(t.op))
    IN /\ t.pc = "escribir"
       /\ FilaInventarioLibre(w, d.producto)
       /\ tx' = [tx EXCEPT ![w].wstock[d.producto] = ValorAGuardar(w),
                           ![w].sucio = @ \cup {d.producto},
                           ![w].wmovs = Append(@, m),
                           ![w].i = IF t.i < Len(t.dets) THEN t.i + 1 ELSE t.i,
                           ![w].pc = IF t.i < Len(t.dets) THEN "inventario"
                                     ELSE IF t.op \in OpsOrden THEN "guardar"
                                     ELSE "commit"]
       /\ UNCHANGED <<db, ultima, previo, nops>>

\* compra.save() / venta.save() with the new estado: the UPDATE waits while
\* another open transaction has written the same order row.
TxGuardarEstado(w) ==
    LET t == tx[w]
    IN /\ t.pc = "guardar"
       /\ \A o \in Workers \ {w} :
             ~(tx[o].westado # NADA /\ DocDe(tx[o].op) = DocDe(t.op) /\ tx[o].id = t.id)
       /\ tx' = [tx EXCEPT ![w].westado = EstadoFinal(t.op), ![w].pc = "commit"]
       /\ UNCHANGED <<db, ultima, previo, nops>>

\* The atomic block ends: the writes of the transaction become the
\* committed rows and the view answers.
TxCommit(w) ==
    LET t == tx[w]
    IN /\ t.pc = "commit"
       /\ stock' = [p \in Productos |-> IF p \in t.sucio THEN t.wstock[p] ELSE stock[p]]
       /\ movs' = movs \o t.wmovs
       /\ compras' = IF t.op \in OpsCompra
                     THEN [compras EXCEPT ![t.id].estado = t.westado,
                                          ![t.id].motivo_anulacion =
                                             IF t.op = "anular_compra" THEN t.motivo ELSE @]
                     ELSE compras
       /\ ventas' = IF t.op \in OpsVenta
                    THEN [ventas EXCEPT ![t.id].estado = t.westado]
                    ELSE ventas
       /\ tx' = [tx EXCEPT ![w] = TxLibre]
       /\ ultima' = Resultado(t.op, t.id, "ok")
       /\ previo' = SinPrevio
       /\ UNCHANGED <<ultimaVenta, nops, usuarios>>

UnaLinea(p, cant) == <<[producto |-> p, cantidad |-> cant]>>

NextConc ==
    \/ \E dets \in ListasDeLineas : crear_compra(dets)
    \/ \E dets \in ListasDeLineas, est \in {"PENDIENTE", "COMPLETADA"} :
          crear_venta(dets, est)
    \/ \E w \in Workers, c \in DOMAIN compras :
          TxIniciar(w, "confirmar_compra", c, NADA, <<>>, 0)
    \/ \E w \in Workers, c \in DOMAIN compras, m \in Motivos :
          TxIniciar(w, "anular_compra", c, m, <<>>, 0)
    \/ \E w \in Workers, v \in DOMAIN ventas :
          TxIniciar(w, "completar_venta", v, NADA, <<>>, 0)
    \/ \E w \in Workers, v \in DOMAIN ventas, m \in Motivos :
          TxIniciar(w, "cancelar_venta", v, m, <<>>, 0)
    \/ \E w \in Workers, p \in Productos, cant \in Cantidades :
          TxIniciar(w, "registrar_entrada", 0, NADA, UnaLinea(p, cant), 0)
    \/ \E w \in Workers, p \in Productos, cant \in Cantidades :
          TxIniciar(w, "registrar_salida", 0, NADA, UnaLinea(p, cant), 0)
    \/ \E w \in Workers, p \in Productos, n \in StocksNuevos :
          TxIniciar(w, "ajustar_stock", 0, NADA, UnaLinea(p, 1), n)
    \/ \E w \in Workers : TxLeerOrden(w)
    \/ \E w \in Workers : TxValidarStock(w)
    \/ \E w \in Workers : TxLeerInventario(w)
    \/ \E w \in Workers : TxEscribirInventario(w)
    \/ \E w \in Workers : TxGuardarEstado(w)
    \/ \E w \in Workers : TxCommit(w)

\* Concurrent requests, from the stocked state.
SpecConc == InitSurtido /\ [][NextConc]_vars

\* ------------------------------------------------------------------------
\* A transition that fails after it has written
\* ------------------------------------------------------------------------
\* Every service is wrapped in @transaction.atomic: an exception that leaves
\* the service rolls back what the transaction wrote.  After the checks of
\* estado and stock the services raise nothing themselves; what can still
\* fail is a statement of the transaction (a database error), at any line.

\* A failure that keeps the inventory rows the transaction had saved.
StockTrasFalloSinRollback(w) ==
    [p \in Productos |-> IF p \in tx[w].sucio THEN tx[w].wstock[p] ELSE stock[p]]

\* The committed inventory after the exception has left the atomic block.
StockTrasFallo(w) == stock

\* A statement of transaction w raises.  previo keeps, for the record, the
\* stock the transaction saw when it failed (its own writes included).
TxFallar(w) ==
    LET t == tx[w]
    IN /\ t.op \in OpsOrden
       /\ t.pc \in {"validar", "inventario", "escribir", "guardar", "commit"}
       /\ stock' = StockTrasFallo(w)
       /\ tx' = [tx EXCEPT ![w] = TxLibre]
       /\ ultima' = Resultado(t.op, t.id, "DatabaseError")
       /\ previo' = [op |-> "descartado", id |-> t.id,
                     stock |-> [p \in Productos |-> LeerStock(w, p)],
                     cancelada |-> FALSE]
       /\ UNCHANGED <<movs, compras, ventas, ultimaVenta, nops, usuarios>>

\* One request at a time, each transition executed statement by statement.
UnWorker == {1}

NextAtomica ==
    \/ \E dets \in ListasDeLineas : crear_compra(dets)
    \/ \E dets \in ListasDeLineas, est \in {"PENDIENTE", "COMPLETADA"} :
          crear_venta(dets, est)
    \/ \E w \in UnWorker, c \in DOMAIN compras :
          TxIniciar(w, "confirmar_compra", c, NADA, <<>>, 0)
    \/ \E w \in UnWorker, c \in DOMAIN compras, m \in Motivos :
          TxIniciar(w, "anular_compra", c, m, <<>>, 0)
    \/ \E w \in UnWorker, v \in DOMAIN ventas :
          TxIniciar(w, "completar_venta", v, NADA, <<>>, 0)
    \/ \E w \in UnWorker, v \in DOMAIN ventas, m \in Motivos :
          TxIniciar(w, "cancelar_venta", v, m, <<>>, 0)
    \/ \E w \in UnWorker : TxLeerOrden(w)
    \/ \E w \in UnWorker : TxValidarStock(w)
    \/ \E w \in UnWorker : TxLeerInventario(w)
    \/ \E w \in UnWorker : TxEscribirInventario(w)
    \/ \E w \in UnWorker : TxGuardarEstado(w)
    \/ \E w \in UnWorker : TxCommit(w)
    \/ \E w \in UnWorker : TxFallar(w)

SpecAtomica == InitSurtido /\ [][NextAtomica]_vars

\* ------------------------------------------------------------------------
\* Purchases created concurrently
\* ------------------------------------------------------------------------
\* POST /api/compras/ enters the view: the serializer validates the lines
\* and, when they pass, CompraService.crear_compra opens its transaction.
TxCrearCompra(w, dets) ==
    /\ WorkerLibre(w)
    /\ nops < MaxOps
    /\ nops' = nops + 1
    /\ IF ~(SinDuplicados(dets) /\ \A i \in 1..Len(dets) : DetalleCompraValido(dets[i]))
       THEN /\ ultima' = Resultado("crear_compra", 0, "ValidationError")
            /\ UNCHANGED <<db, previo, tx>>
       ELSE /\ tx' = [tx EXCEPT ![w] =
                         [TxLibre EXCEPT !.op = "crear_compra", !.dets = dets,
                                         !.pc = "numero"]]
            /\ UNCHANGED <<db, ultima, previo>>

\* Compra.save: "if not self.numero_compra: self.numero_compra =
\* self.generar_numero_compra()", a query over the committed purchases.
TxGenerarNumero(w) ==
    /\ tx[w].pc = "numero"
    /\ tx' = [tx EXCEPT ![w].numero = generar_numero_compra(compras),
                        ![w].pc = "insertar"]
    /\ UNCHANGED <<db, ultima, previo, nops>>

\* A unique index that accepts every key.
NumeroLibreSiempre(numero) == TRUE

\* numero_compra has unique=True: the INSERT is refused when a committed
\* purchase has the number.
NumeroLibre(numero) == \A c \in DOMAIN compras : compras[c].numero_compra # numero

\* super().save(): the INSERT of the purchase row.  It waits while another
\* open transaction has inserted the same number and not committed; it raises
\* IntegrityError, which crear_compra turns into CompraError, when the number
\* is taken.  The lines are inserted after the purchase.
TxInsertarCompra(w) ==
    /\ tx[w].pc = "insertar"
    /\ \A o \in Workers \ {w} :
          ~(tx[o].pc = "commit_compra" /\ tx[o].numero = tx[w].numero)
    /\ IF ~NumeroLibre(tx[w].numero)
       THEN TxRechazar(w, "CompraError")
       ELSE /\ tx' = [tx EXCEPT ![w].pc = "commit_compra"]
            /\ UNCHANGED <<db, ultima, previo, nops>>

\* The atomic block of crear_compra ends: the purchase and its lines become
\* committed rows and the view answers 201.
TxCommitCompra(w) ==
    LET t == tx[w]
    IN /\ t.pc = "commit_compra"
       /\ compras' = Append(compras,
                            Compra("PENDIENTE", GuardarLineas(t.dets), NADA,
                                   recalcular_total(GuardarLineas(t.dets)), t.numero))
       /\ tx' = [tx EXCEPT ![w] = TxLibre]
       /\ ultima' = Resultado("crear_compra", Len(compras) + 1, "ok")
       /\ previo' = SinPrevio
       /\ UNCHANGED <<stock, movs, ventas, ultimaVenta, nops, usuarios>>

NextNumeros ==
    \/ \E w \in Workers, dets \in ListasDeLineas : TxCrearCompra(w, dets)
    \/ \E w \in Workers : TxGenerarNumero(w)
    \/ \E w \in Workers : TxInsertarCompra(w)
    \/ \E w \in Workers : TxCommitCompra(w)

SpecNumeros == InitSurtido /\ [][NextNumeros]_vars

\* ------------------------------------------------------------------------
\* Lock waits of concurrent transitions
\* ------------------------------------------------------------------------
\* The services take no lock of their own and set no lock timeout; the waits
\* are those of the row locks of PostgreSQL (the engine of the production
\* settings).  Two transitions that save the same two inventory rows in
\* opposite orders wait for each other; PostgreSQL detects the cycle and
\* aborts one of the two transactions with an error.

\* A deadlock detector that never finds a cycle.
NuncaHayDeadlock(w) == FALSE

\* Transaction w waits for a row another transaction has written, and that
\* transaction waits for a row w has written.
HayDeadlock(w) ==
    \E o \in Workers \ {w} :
       /\ tx[w].pc = "escribir"
       /\ tx[o].pc = "escribir"
       /\ tx[w].dets[tx[w].i].producto \in tx[o].sucio
       /\ tx[o].dets[tx[o].i].producto \in tx[w].sucio

\* The database aborts transaction w ("deadlock detected"): the service's
\* "except Exception" wraps the error, the atomic block rolls back and the
\* view answers with the error.
TxAbortarPorDeadlock(w) ==
    /\ HayDeadlock(w)
    /\ TxRechazar(w, "OperationalError")

\* A PENDIENTE purchase and a PENDIENTE sale whose lines name the same two
\* products in opposite orders, as two creation requests leave them.
LineasDeLaCompra == <<L("p1", 1, 3), L("p2", 2, 5)>>
LineasDeLaVenta == <<L("p2", 1, 5), L("p1", 1, 3)>>

InitPedidos ==
    /\ stock = [p \in Productos |-> StockSurtido]
    /\ movs = <<Movimiento("p1", "ENTRADA", StockSurtido, "MANUAL", 0, "ENTRADA"),
                Movimiento("p2", "ENTRADA", StockSurtido, "MANUAL", 0, "ENTRADA")>>
    /\ compras = <<Compra("PENDIENTE", GuardarLineas(LineasDeLaCompra), NADA,
                          recalcular_total(GuardarLineas(LineasDeLaCompra)),
                          FormatoNumero(1))>>
    /\ ventas = [v \in {1} |-> Venta("PENDIENTE", GuardarLineas(LineasDeLaVenta),
                                     TotalDeLineas(LineasDeLaVenta))]
    /\ ultimaVenta = 1
    /\ usuarios = UsuariosIniciales
    /\ ultima = Resultado("crear_venta", 1, "ok")
    /\ previo = SinPrevio
    /\ nops = 0
    /\ tx = [w \in Workers |-> TxLibre]

NextEsperas ==
    \/ \E w \in Workers, c \in DOMAIN compras :
          TxIniciar(w, "confirmar_compra", c, NADA, <<>>, 0)
    \/ \E w \in Workers, c \in DOMAIN compras, m \in Motivos :
          TxIniciar(w, "anular_compra", c, m, <<>>, 0)
    \/ \E w \in Workers, v \in DOMAIN ventas :
          TxIniciar(w, "completar_venta", v, NADA, <<>>, 0)
    \/ \E w \in Workers, v \in DOMAIN ventas, m \in Motivos :
          TxIniciar(w, "cancelar_venta", v, m, <<>>, 0)
    \/ \E w \in Workers : TxLeerOrden(w)
    \/ \E w \in Workers : TxValidarStock(w)
    \/ \E w \in Workers : TxLeerInventario(w)
    \/ \E w \in Workers : TxEscribirInventario(w)
    \/ \E w \in Workers : TxGuardarEstado(w)
    \/ \E w \in Workers : TxCommit(w)
    \/ \E w \in Workers : TxAbortarPorDeadlock(w)

\* Every request in flight runs in its own thread of the server and the
\* database serves every transaction: a step that stays possible is taken.
SpecEsperas ==
    /\ InitPedidos
    /\ [][NextEsperas]_vars
    /\ \A w \in Workers :
          /\ WF_vars(TxLeerOrden(w))
          /\ WF_vars(TxValidarStock(w))
          /\ WF_vars(TxLeerInventario(w))
          /\ WF_vars(TxEscribirInventario(w))
          /\ WF_vars(TxGuardarEstado(w))
          /\ WF_vars(TxCommit(w))
          /\ WF_vars(TxAbortarPorDeadlock(w))

\* ------------------------------------------------------------------------
\* Creation requests with lines of every kind
\* ------------------------------------------------------------------------
NextValidacion ==
    \/ \E dets \in ListasParaValidar : crear_compra(dets)
    \/ \E dets \in ListasParaValidar, est \in {"PENDIENTE", "COMPLETADA"} :
          crear_venta(dets, est)

SpecValidacion == InitSurtido /\ [][NextValidacion]_vars

\* ------------------------------------------------------------------------
\* Users (apps/usuarios)
\* ------------------------------------------------------------------------
Anonimo == 0         \* a request without credentials
NombresDeRol == {"Administrador", "Vendedor"}
NombresNuevos == {"nuevo", "otro"}
Metodos == {"GET", "PUT", "DELETE"}

\* usuario.usuario_roles.filter(rol__nombre=...).exists()
TieneRol(actor, rol) == rol \in usuarios[actor].roles

\* UsuarioViewSet.get_permissions: the permission instances of the action.
UsuarioViewSet_get_permissions(accion) ==
    IF accion = "create" THEN "AllowAny" ELSE "IsAuthenticated"

\* AllowAny.has_permission / IsAuthenticated.has_permission.
has_permission(permiso, actor) ==
    IF permiso = "AllowAny" THEN TRUE ELSE actor # Anonimo

\* The answer of a users endpoint to the actor of the request.
ResponderUsuario(r) ==
    /\ nops < MaxOps
    /\ nops' = nops + 1
    /\ ultima' = r
    /\ previo' = SinPrevio
    /\ UNCHANGED <<stock, movs, compras, ventas, ultimaVenta, tx>>

\* POST /api/usuarios/: UsuarioCreateSerializer (unique username), then
\* UsuarioService.crear_usuario with the roles of roles_ids.
UsuarioViewSet_create(actor, username, roles_ids) ==
    IF ~has_permission(UsuarioViewSet_get_permissions("create"), actor)
    THEN /\ ResponderUsuario(Resultado("create_usuario", actor, "403"))
         /\ UNCHANGED usuarios
    ELSE IF \E u \in DOMAIN usuarios : usuarios[u].username = username
    THEN /\ ResponderUsuario(Resultado("create_usuario", actor, "400"))
         /\ UNCHANGED usuarios
    ELSE /\ usuarios' = Append(usuarios, [username |-> username, roles |-> roles_ids])
         /\ ResponderUsuario(Resultado("create_usuario", actor, "201"))

\* UsuarioViewSet.get_queryset without query parameters: every Usuario.
UsuarioViewSet_get_queryset(actor) == DOMAIN usuarios

\* GET /api/usuarios/: the ids of the users listed go in the response.
UsuarioViewSet_list(actor) ==
    /\ IF ~has_permission(UsuarioViewSet_get_permissions("list"), actor)
       THEN ResponderUsuario([op |-> "list_usuarios", id |-> actor, res |-> "401",
                              cuerpo |-> {}])
       ELSE ResponderUsuario([op |-> "list_usuarios", id |-> actor, res |-> "200",
                              cuerpo |-> UsuarioViewSet_get_queryset(actor)])
    /\ UNCHANGED usuarios

\* POST /api/usuarios/{u}/asignar_rol/: UsuarioService.asignar_rol.
UsuarioViewSet_asignar_rol(actor, u, rol) ==
    /\ u \in DOMAIN usuarios
    /\ IF ~has_permission(UsuarioViewSet_get_permissions("asignar_rol"), actor)
       THEN /\ ResponderUsuario(Resultado("asignar_rol", actor, "401"))
            /\ UNCHANGED usuarios
       ELSE /\ usuarios' = [usuarios EXCEPT ![u].roles = @ \cup {rol}]
            /\ ResponderUsuario(Resultado("asignar_rol", actor, "200"))

\* POST /api/usuarios/{u}/remover_rol/: UsuarioService.remover_rol.
UsuarioViewSet_remover_rol(actor, u, rol) ==
    /\ u \in DOMAIN usuarios
    /\ IF ~has_permission(UsuarioViewSet_get_permissions("remover_rol"), actor)
       THEN /\ ResponderUsuario(Resultado("remover_rol", actor, "401"))
            /\ UNCHANGED usuarios
       ELSE /\ usuarios' = [usuarios EXCEPT ![u].roles = @ \ {rol}]
            /\ ResponderUsuario(Resultado("remover_rol", actor, "200"))

\* rest_framework.permissions.SAFE_METHODS
SAFE_METHODS == {"GET", "HEAD", "OPTIONS"}

\* hasattr(obj, nombre) on a row: the row has the field.
hasattr(obj, nombre) == nombre \in DOMAIN obj

\* PuedeEditarPropio.has_object_permission(request, view, obj) for the
\* request of actor with the given method: safe methods pass, then the
\* administrators, then "hasattr(obj, 'usuario') and obj.usuario ==
\* request.user".
PuedeEditarPropio_has_object_permission(metodo, actor, obj) ==
    IF metodo \in SAFE_METHODS THEN TRUE
    ELSE IF TieneRol(actor, "Administrador") THEN TRUE
    ELSE hasattr(obj, "usuario") /\ obj.usuario = actor

\* The permission evaluated for a request of actor on the Usuario row o.
PuedeEditarPropio_evaluar(metodo, actor, o) ==
    /\ actor \in DOMAIN usuarios
    /\ o \in DOMAIN usuarios
    /\ ResponderUsuario([op |-> "PuedeEditarPropio", id |-> actor, objeto |-> o,
                         metodo |-> metodo,
                         res |-> IF PuedeEditarPropio_has_object_permission(
                                        metodo, actor, usuarios[o])
                                 THEN "True" ELSE "False"])
    /\ UNCHANGED usuarios

NextUsuarios ==
    \/ \E actor \in DOMAIN usuarios \cup {Anonimo}, n \in NombresNuevos,
          rs \in SUBSET NombresDeRol : UsuarioViewSet_create(actor, n, rs)
    \/ \E actor \in DOMAIN usuarios \cup {Anonimo} : UsuarioViewSet_list(actor)
    \/ \E actor \in DOMAIN usuarios \cup {Anonimo}, u \in DOMAIN usuarios,
          rol \in NombresDeRol : UsuarioViewSet_asignar_rol(actor, u, rol)
    \/ \E actor \in DOMAIN usuarios \cup {Anonimo}, u \in DOMAIN usuarios,
          rol \in NombresDeRol : UsuarioViewSet_remover_rol(actor, u, rol)
    \/ \E metodo \in Metodos, actor \in DOMAIN usuarios, o \in DOMAIN usuarios :
          PuedeEditarPropio_evaluar(metodo, actor, o)

SpecUsuarios == InitSurtido /\ [][NextUsuarios]_vars

\* ------------------------------------------------------------------------
\* Properties
\* ------------------------------------------------------------------------
\* The step just taken served request op on order id.
Atendida(op, id) ==
    /\ nops' = nops + 1
    /\ ultima'.op = op
    /\ ultima'.id = id

RECURSIVE CuentaMovimientos(_, _, _, _)
\* Number of movements whose reference names document (doc, id) and cause.
CuentaMovimientos(ms, doc, id, causa) ==
    IF ms = <<>> THEN 0
    ELSE (IF Head(ms).doc = doc /\ Head(ms).id = id /\ Head(ms).causa = causa
          THEN 1 ELSE 0)
         + CuentaMovimientos(Tail(ms), doc, id, causa)

\* C1: for every product, stock_actual equals the sum of its ENTRADA
\* movements minus the sum of its SALIDA movements, after any sequence of
\* requests served one at a time from empty inventories.
C1_LibroMayorCuadra ==
    \A p \in Productos :
        stock[p] = SumaMovimientos(movs, p, "ENTRADA") - SumaMovimientos(movs, p, "SALIDA")

\* C1 witness: a manual adjustment has just lowered a stock that earlier
\* movements had raised.
C1_Testigo ==
    /\ ultima.op = "ajustar_stock"
    /\ Len(movs) >= 2
    /\ movs[Len(movs)].tipo_movimiento = "SALIDA"
    /\ movs[Len(movs)].cantidad > 0

\* C2: in every reachable state every product's stock_actual is >= 0, and a
\* withdrawal (registrar_salida, a completed sale's line, an annulled
\* purchase's line) larger than the current stock fails and changes no stock.
C2_SinStockNegativo ==
    \A p \in Productos : stock[p] >= 0

\* C3: the stock effects of an order are applied at most once and reversed
\* at most once: per line at most one confirm movement and at most one
\* reversal movement, and no reversal without an application.
C3_EfectosUnaVez ==
    /\ \A c \in DOMAIN compras :
         LET n == Len(compras[c].detalles)
             aplicados == CuentaMovimientos(movs, "COMPRA", c, "CONFIRMACION")
             revertidos == CuentaMovimientos(movs, "COMPRA", c, "ANULACION")
         IN aplicados <= n /\ revertidos <= n /\ revertidos <= aplicados
    /\ \A v \in DOMAIN ventas :
         LET n == Len(ventas[v].detalles)
             aplicados == CuentaMovimientos(movs, "VENTA", v, "VENTA")
             revertidos == CuentaMovimientos(movs, "VENTA", v, "CANCELACION")
         IN aplicados <= n /\ revertidos <= n /\ revertidos <= aplicados

\* C4: completar_venta on a PENDIENTE sale with a line whose cantidad
\* exceeds the current stock of its product fails, creates no movement,
\* changes no stock and leaves the sale PENDIENTE.
C4_CompletarTodoONada ==
    [][\A v \in DOMAIN ventas :
          ( /\ Atendida("completar_venta", v)
            /\ ventas[v].estado = "PENDIENTE"
            /\ \E i \in 1..Len(ventas[v].detalles) :
                  ventas[v].detalles[i].cantidad > stock[ventas[v].detalles[i].producto] )
          => ( /\ ultima'.res # "ok"
               /\ movs' = movs
               /\ stock' = stock
               /\ ventas'[v].estado = "PENDIENTE" )]_vars

\* Stock a product has when the estados of the orders are the result of
\* transitions run one after another from the stocked state: the lines of
\* the REALIZADA purchases added, those of the COMPLETADA sales taken.
RECURSIVE SumaLineas(_, _)
SumaLineas(dets, p) ==
    IF dets = <<>> THEN 0
    ELSE (IF Head(dets).producto = p THEN Head(dets).cantidad ELSE 0)
         + SumaLineas(Tail(dets), p)

\* Only transitions of orders have written movements since the start.
SoloTransiciones ==
    \A i \in 1..Len(movs) : i > Cardinality(Productos) => movs[i].doc \in {"COMPRA", "VENTA"}

\* C5: when the concurrent transitions of the only order have all ended,
\* its effects have been applied at most once and reversed at most once and
\* every stock is the one a serial execution leaves for the order's estado.
C5_TransicionesMismaOrden ==
    ( /\ Libres
      /\ Len(compras) + Cardinality(DOMAIN ventas) = 1
      /\ SoloTransiciones )
    => /\ C3_EfectosUnaVez
       /\ \A p \in Productos :
             stock[p] = StockSurtido
                + (IF Len(compras) = 1 /\ compras[1].estado = "REALIZADA"
                   THEN SumaLineas(compras[1].detalles, p) ELSE 0)
                - (IF Len(compras) = 0 /\ \E v \in DOMAIN ventas : ventas[v].estado = "COMPLETADA"
                   THEN SumaLineas(ventas[CHOOSE v \in DOMAIN ventas : TRUE].detalles, p)
                   ELSE 0)

\* C6: when the concurrent manual stock applications (registrar_entrada,
\* registrar_salida, ajustar_stock; no order exists) have all committed,
\* every stock_actual equals the sum of the product's ENTRADA movements
\* minus the sum of its SALIDA movements, and no stock_actual is negative.
C6_SinActualizacionPerdida ==
    (Libres /\ Len(compras) = 0 /\ ultimaVenta = 0)
    => /\ C1_LibroMayorCuadra
       /\ C2_SinStockNegativo

\* C7: when a successful confirm of an order is immediately followed by the
\* successful cancel of the same order, every product's stock_actual is what
\* it was just before the confirm.
C7_Simetria ==
    previo.cancelada => stock = previo.stock

\* C7 witness: a sale was completed, taking its lines out of the stock, and
\* cancelled by the next request, which put them back.
C7_Testigo ==
    /\ previo.cancelada
    /\ ultima = Resultado("cancelar_venta", ultima.id, "ok")
    /\ CuentaMovimientos(movs, "VENTA", ultima.id, "VENTA") >= 1
    /\ movs[Len(movs)].causa = "CANCELACION"

\* C8: a cancel of an order that is already ANULADA / CANCELADA fails with a
\* state error, creates no movement and leaves the stock and the orders as
\* they were.
C8_CancelarDosVeces ==
    [][ /\ \A c \in DOMAIN compras :
             (Atendida("anular_compra", c) /\ compras[c].estado = "ANULADA")
             => (ultima'.res = "CompraStateError" /\ UNCHANGED db)
        /\ \A v \in DOMAIN ventas :
             (Atendida("cancelar_venta", v) /\ ventas[v].estado = "CANCELADA")
             => (ultima'.res = "ValueError" /\ UNCHANGED db) ]_vars

\* C8 witness: the cancel of a sale was refused because the sale was already
\* CANCELADA, after the first cancel had returned its lines.
C8_Testigo ==
    /\ ultima = Resultado("cancelar_venta", ultima.id, "ValueError")
    /\ ventas[ultima.id].estado = "CANCELADA"
    /\ CuentaMovimientos(movs, "VENTA", ultima.id, "CANCELACION") >= 1

\* C9: a confirm of an order that is not PENDIENTE fails with a state error,
\* creates no movement and leaves the stock and the order's estado as they
\* were; a confirm retried after a successful one has no further effect.
C9_ConfirmarSoloPendiente ==
    [][ /\ \A c \in DOMAIN compras :
             (Atendida("confirmar_compra", c) /\ compras[c].estado # "PENDIENTE")
             => (ultima'.res = "CompraStateError" /\ UNCHANGED db)
        /\ \A v \in DOMAIN ventas :
             (Atendida("completar_venta", v) /\ ventas[v].estado # "PENDIENTE")
             => (ultima'.res = "ValueError" /\ UNCHANGED db) ]_vars

\* C9 witness: a confirm retried right after the successful confirm of the
\* same order was refused.
C9_Testigo ==
    /\ ultima = Resultado("confirmar_compra", ultima.id, "CompraStateError")
    /\ compras[ultima.id].estado = "REALIZADA"
    /\ CuentaMovimientos(movs, "COMPRA", ultima.id, "CONFIRMACION") >= 1

\* C10: once an order is ANULADA / CANCELADA, no request changes its estado
\* or its lines, the order stays, and no request on it changes any stock or
\* adds a movement.
C10_CanceladaEsTerminal ==
    [][ /\ \A c \in DOMAIN compras : compras[c].estado = "ANULADA" =>
             /\ c \in DOMAIN compras'
             /\ compras'[c] = compras[c]
             /\ (\E op \in {"confirmar_compra", "anular_compra", "update_compra"} :
                    Atendida(op, c)) => (stock' = stock /\ movs' = movs)
        /\ \A v \in DOMAIN ventas : ventas[v].estado = "CANCELADA" =>
             /\ v \in DOMAIN ventas'
             /\ ventas'[v] = ventas[v]
             /\ (\E op \in {"completar_venta", "cancelar_venta", "update_venta",
                            "destroy_venta"} : Atendida(op, v))
                => (stock' = stock /\ movs' = movs) ]_vars

\* C10 witness: an update has just been refused on a purchase that the
\* service had annulled (its motivo is stored).
C10_Testigo ==
    /\ ultima = Resultado("update_compra", ultima.id, "ValidationError")
    /\ compras[ultima.id].estado = "ANULADA"
    /\ compras[ultima.id].motivo_anulacion # NADA

\* C11: a successful crear_compra or crear_venta leaves the new order
\* PENDIENTE, changes no stock_actual and creates no movement.
C11_CrearSinEfecto ==
    [][ /\ (Atendida("crear_compra", Len(compras) + 1) /\ ultima'.res = "ok")
           => ( /\ compras'[Len(compras) + 1].estado = "PENDIENTE"
                /\ stock' = stock
                /\ movs' = movs )
        /\ (Atendida("crear_venta", ultimaVenta + 1) /\ ultima'.res = "ok")
           => ( /\ ventas'[ultimaVenta + 1].estado = "PENDIENTE"
                /\ stock' = stock
                /\ movs' = movs ) ]_vars

\* C12: anular_compra on a REALIZADA purchase, with no stock negative before
\* it, either fails with InventarioInsuficienteError and changes nothing, or
\* succeeds and leaves every stock_actual >= 0.
C12_AnularNuncaNegativo ==
    [][ \A c \in DOMAIN compras :
          ( /\ Atendida("anular_compra", c)
            /\ compras[c].estado = "REALIZADA"
            /\ \A p \in Productos : stock[p] >= 0 )
          => \/ (ultima'.res = "InventarioInsuficienteError" /\ UNCHANGED db)
             \/ (ultima'.res = "ok" /\ \A p \in Productos : stock'[p] >= 0) ]_vars

\* Names a column holding the reason of a cancellation could have.
CamposDeMotivo == {"motivo", "motivo_anulacion", "motivo_cancelacion"}

\* C13: every ANULADA purchase and every CANCELADA sale holds a non-empty
\* reason in one of the order's own fields.
C13_MotivoGuardado ==
    /\ \A c \in DOMAIN compras :
          compras[c].estado = "ANULADA"
          => compras[c].motivo_anulacion \in Motivos \cup {MotivoEliminacion}
    /\ \A v \in DOMAIN ventas :
          ventas[v].estado = "CANCELADA"
          => \E f \in DOMAIN ventas[v] \cap CamposDeMotivo : ventas[v][f] \in Motivos

\* C14: anular_compra / cancelar_venta on a PENDIENTE order succeeds, sets
\* estado to ANULADA / CANCELADA, creates no movement and changes no stock.
C14_CancelarPendienteSinEfecto ==
    [][ /\ \A c \in DOMAIN compras :
             (Atendida("anular_compra", c) /\ compras[c].estado = "PENDIENTE")
             => ( /\ ultima'.res = "ok"
                  /\ compras'[c].estado = "ANULADA"
                  /\ stock' = stock
                  /\ movs' = movs )
        /\ \A v \in DOMAIN ventas :
             (Atendida("cancelar_venta", v) /\ ventas[v].estado = "PENDIENTE")
             => ( /\ ultima'.res = "ok"
                  /\ ventas'[v].estado = "CANCELADA"
                  /\ stock' = stock
                  /\ movs' = movs ) ]_vars

\* C14 witness: a sale has just been cancelled without any return movement,
\* that is, from PENDIENTE.
C14_Testigo ==
    /\ ultima = Resultado("cancelar_venta", ultima.id, "ok")
    /\ ventas[ultima.id].estado = "CANCELADA"
    /\ CuentaMovimientos(movs, "VENTA", ultima.id, "CANCELACION") = 0

\* Movements of (doc, id, causa) added by the step.
Nuevos(doc, id, causa) ==
    CuentaMovimientos(movs', doc, id, causa) - CuentaMovimientos(movs, doc, id, causa)

\* C15: a confirm or cancel that fails, even after it has applied lines,
\* leaves stock, movements and orders as they were; and in every step the
\* estado of an order changes together with the movements of all its lines
\* or nothing of the transition becomes visible.
C15_AtomicidadPorOrden ==
    [][ /\ \A w \in Workers :
             (tx[w].op \in OpsOrden /\ tx'[w].op = "libre" /\ ultima'.res # "ok")
             => UNCHANGED db
        /\ \A c \in DOMAIN compras :
             LET n == Len(compras[c].detalles)
                 cambia == compras'[c].estado # compras[c].estado
             IN /\ Nuevos("COMPRA", c, "CONFIRMACION") \in {0, n}
                /\ Nuevos("COMPRA", c, "ANULACION") \in {0, n}
                /\ (cambia /\ compras'[c].estado = "REALIZADA")
                   <=> Nuevos("COMPRA", c, "CONFIRMACION") = n
                /\ (cambia /\ compras[c].estado = "REALIZADA")
                   <=> Nuevos("COMPRA", c, "ANULACION") = n
        /\ \A v \in DOMAIN ventas :
             LET n == Len(ventas[v].detalles)
                 cambia == ventas'[v].estado # ventas[v].estado
             IN /\ Nuevos("VENTA", v, "VENTA") \in {0, n}
                /\ Nuevos("VENTA", v, "CANCELACION") \in {0, n}
                /\ (cambia /\ ventas'[v].estado = "COMPLETADA")
                   <=> Nuevos("VENTA", v, "VENTA") = n
                /\ (cambia /\ ventas[v].estado = "COMPLETADA")
                   <=> Nuevos("VENTA", v, "CANCELACION") = n
        /\ (compras' = compras /\ ventas' = ventas) => (stock' = stock /\ movs' = movs) ]_vars

\* C15 witness: completar_venta has just failed after it had saved the stock
\* of a line; the sale is PENDIENTE and has no movement.
C15_Testigo ==
    /\ ultima = Resultado("completar_venta", ultima.id, "DatabaseError")
    /\ previo.op = "descartado"
    /\ previo.stock # stock
    /\ ventas[ultima.id].estado = "PENDIENTE"
    /\ CuentaMovimientos(movs, "VENTA", ultima.id, "VENTA") = 0

\* C16: in every step the estado of an order stays or moves PENDIENTE ->
\* REALIZADA/COMPLETADA, PENDIENTE -> ANULADA/CANCELADA or REALIZADA/
\* COMPLETADA -> ANULADA/CANCELADA; a move to REALIZADA/COMPLETADA records
\* the movements of all its lines and a move from there to ANULADA/CANCELADA
\* records their reversals.
C16_EstadoSoloAvanza ==
    [][ /\ \A c \in DOMAIN compras :
             LET a == compras[c].estado
                 b == compras'[c].estado
                 n == Len(compras'[c].detalles)
             IN a # b =>
                  /\ <<a, b>> \in {<<"PENDIENTE", "REALIZADA">>, <<"PENDIENTE", "ANULADA">>,
                                   <<"REALIZADA", "ANULADA">>}
                  /\ b = "REALIZADA" => Nuevos("COMPRA", c, "CONFIRMACION") = n
                  /\ a = "REALIZADA" => Nuevos("COMPRA", c, "ANULACION") = n
        /\ \A v \in DOMAIN ventas \cap DOMAIN ventas' :
             LET a == ventas[v].estado
                 b == ventas'[v].estado
                 n == Len(ventas[v].detalles)
             IN a # b =>
                  /\ <<a, b>> \in {<<"PENDIENTE", "COMPLETADA">>, <<"PENDIENTE", "CANCELADA">>,
                                   <<"COMPLETADA", "CANCELADA">>}
                  /\ b = "COMPLETADA" => Nuevos("VENTA", v, "VENTA") = n
                  /\ a = "COMPLETADA" => Nuevos("VENTA", v, "CANCELACION") = n ]_vars

RECURSIVE SumaSubtotales(_)
SumaSubtotales(filas) ==
    IF filas = <<>> THEN 0 ELSE Head(filas).subtotal + SumaSubtotales(Tail(filas))

\* C17: the total of every purchase and of every sale is the sum of the
\* subtotals of its lines, and the subtotal of every line is its cantidad
\* times its unit price.
C17_TotalEsSumaDeSubtotales ==
    /\ \A c \in DOMAIN compras :
          /\ compras[c].total = SumaSubtotales(compras[c].detalles)
          /\ \A i \in 1..Len(compras[c].detalles) :
                compras[c].detalles[i].subtotal
                   = compras[c].detalles[i].cantidad * compras[c].detalles[i].precio
    /\ \A v \in DOMAIN ventas :
          /\ ventas[v].total = SumaSubtotales(ventas[v].detalles)
          /\ \A i \in 1..Len(ventas[v].detalles) :
                ventas[v].detalles[i].subtotal
                   = ventas[v].detalles[i].cantidad * ventas[v].detalles[i].precio

\* C17 witness: the lines of a PENDIENTE purchase have just been replaced
\* through the update endpoint by two lines of the same product (which only
\* that endpoint accepts), of more than one unit each.
C17_Testigo ==
    /\ ultima = Resultado("update_compra", ultima.id, "ok")
    /\ compras[ultima.id].estado = "PENDIENTE"
    /\ Len(compras[ultima.id].detalles) = 2
    /\ compras[ultima.id].detalles[1].producto = compras[ultima.id].detalles[2].producto
    /\ compras[ultima.id].detalles[1].cantidad > 1

\* C18: once an order has left PENDIENTE (its estado is not PENDIENTE, or the
\* movements of its completion exist), no step changes or removes its lines.
C18_LineasInmutables ==
    [][ /\ \A c \in DOMAIN compras :
             compras[c].estado # "PENDIENTE"
             => compras'[c].detalles = compras[c].detalles
        /\ \A v \in DOMAIN ventas :
             ( \/ ventas[v].estado # "PENDIENTE"
               \/ CuentaMovimientos(movs, "VENTA", v, "VENTA") > 0 )
             => ( /\ v \in DOMAIN ventas'
                  /\ ventas'[v].detalles = ventas[v].detalles ) ]_vars

\* A stored line is on an active product that exists and has a positive
\* cantidad and a positive unit price.
LineaAceptable(fila) ==
    /\ fila.producto \in Catalogo \ ProductosInactivos
    /\ fila.cantidad > 0
    /\ fila.precio > 0

\* C19: no purchase and no sale is persisted with a line on a product that
\* does not exist or is inactive, or with a non-positive cantidad or unit
\* price: every creation request with such a line was rejected whole.
C19_LineasValidadas ==
    /\ \A c \in DOMAIN compras :
          \A i \in 1..Len(compras[c].detalles) : LineaAceptable(compras[c].detalles[i])
    /\ \A v \in DOMAIN ventas :
          \A i \in 1..Len(ventas[v].detalles) : LineaAceptable(ventas[v].detalles[i])

\* C20: ajustar_stock(p, n) on a product whose stock is s leaves its
\* stock_actual at n, leaves the other products alone and appends exactly one
\* movement, of p, ENTRADA when n > s, SALIDA when n < s, of cantidad |n - s|.
C20_AjusteEsDelta ==
    [][ \A p \in Productos, n \in StocksNuevos :
          ajustar_stock(p, n) =>
             LET s == stock[p]
                 m == movs'[Len(movs')]
             IN /\ stock'[p] = n
                /\ \A q \in Productos \ {p} : stock'[q] = stock[q]
                /\ Len(movs') = Len(movs) + 1
                /\ SubSeq(movs', 1, Len(movs)) = movs
                /\ m.producto = p
                /\ n > s => m.tipo_movimiento = "ENTRADA"
                /\ n < s => m.tipo_movimiento = "SALIDA"
                /\ m.cantidad = IF n >= s THEN n - s ELSE s - n ]_vars

\* C20 witness: an adjustment has just raised the stock of a product, with
\* an ENTRADA movement of the difference.
C20_Testigo ==
    /\ ultima = Resultado("ajustar_stock", 0, "ok")
    /\ movs[Len(movs)].doc = "AJUSTE"
    /\ movs[Len(movs)].tipo_movimiento = "ENTRADA"
    /\ movs[Len(movs)].cantidad > 0
    /\ stock[movs[Len(movs)].producto] \in StocksNuevos

\* C21: every MovimientoInventario row, whichever operation created it, has
\* a strictly positive cantidad.
C21_CantidadPositiva ==
    \A i \in 1..Len(movs) : movs[i].cantidad > 0

\* C22: the movement history is append-only: every step leaves the movements
\* that existed before it as they were and in their order, and only adds
\* movements after them; so the list at any state is a prefix of the list at
\* every later state.
C22_HistorialSoloCrece ==
    [][ /\ Len(movs') >= Len(movs)
        /\ SubSeq(movs', 1, Len(movs)) = movs ]_vars

\* C22 witness: a request to modify or delete a movement has just been
\* refused, on a history that requests had extended.
C22_Testigo ==
    /\ ultima = Resultado("movimiento_detalle", 0, "MethodNotAllowed")
    /\ Len(movs) > Cardinality(Productos)

C25_SoloAdministradorCreaUsuarios ==
    [][ \A actor \in DOMAIN usuarios :
          Atendida("create_usuario", actor) =>
             IF ~TieneRol(actor, "Administrador")
             THEN ultima'.res = "403" /\ usuarios' = usuarios
             ELSE \/ ultima'.res = "201" /\ Len(usuarios') = Len(usuarios) + 1
                  \/ ultima'.res = "400" /\ usuarios' = usuarios ]_vars

\* C26: PuedeEditarPropio on a Usuario object, for a non-safe method, allows
\* exactly the requests of the object's own user and of the administrators.
C26_PuedeEditarPropio ==
    (ultima.op = "PuedeEditarPropio" /\ ultima.metodo \notin SAFE_METHODS)
    => ( ultima.res = "True"
         <=> (ultima.id = ultima.objeto \/ TieneRol(ultima.id, "Administrador")) )

\* C27: the list answered to a user whose only role is Vendedor contains
\* exactly that user, and the list answered to an Administrador contains
\* every user.
C27_ListaSegunRol ==
    (ultima.op = "list_usuarios" /\ ultima.id # Anonimo)
    => /\ usuarios[ultima.id].roles = {"Vendedor"} => ultima.cuerpo = {ultima.id}
       /\ TieneRol(ultima.id, "Administrador") => ultima.cuerpo = DOMAIN usuarios

\* Product, direction and cantidad of the movements the step has added.
Agregados ==
    [i \in 1..(Len(movs') - Len(movs)) |->
        [producto |-> movs'[Len(movs) + i].producto,
         tipo_movimiento |-> movs'[Len(movs) + i].tipo_movimiento,
         cantidad |-> movs'[Len(movs) + i].cantidad]]

\* One movement per line, with the line's product and cantidad.
DeLasLineas(dets, tipo) ==
    [i \in 1..Len(dets) |->
        [producto |-> dets[i].producto, tipo_movimiento |-> tipo,
         cantidad |-> dets[i].cantidad]]

\* C28: a successful confirm appends exactly one movement per line of the
\* order, with the line's product and cantidad, ENTRADA for a purchase and
\* SALIDA for a sale; a successful cancel of a REALIZADA / COMPLETADA order
\* appends one movement per line with the opposite direction; whatever the
\* stock is.
C28_EfectosDeLasLineas ==
    [][ /\ \A c \in DOMAIN compras :
             /\ (Atendida("confirmar_compra", c) /\ ultima'.res = "ok")
                => Agregados = DeLasLineas(compras[c].detalles, "ENTRADA")
             /\ (Atendida("anular_compra", c) /\ ultima'.res = "ok"
                   /\ compras[c].estado = "REALIZADA")
                => Agregados = DeLasLineas(compras[c].detalles, "SALIDA")
        /\ \A v \in DOMAIN ventas :
             /\ (Atendida("completar_venta", v) /\ ultima'.res = "ok")
                => Agregados = DeLasLineas(ventas[v].detalles, "SALIDA")
             /\ (Atendida("cancelar_venta", v) /\ ultima'.res = "ok"
                   /\ ventas[v].estado = "COMPLETADA")
                => Agregados = DeLasLineas(ventas[v].detalles, "ENTRADA") ]_vars

\* C28 witness: a purchase of two lines was received and has just been
\* annulled, with one reversal movement per line.
C28_Testigo ==
    /\ ultima = Resultado("anular_compra", ultima.id, "ok")
    /\ Len(compras[ultima.id].detalles) = 2
    /\ CuentaMovimientos(movs, "COMPRA", ultima.id, "CONFIRMACION") = 2
    /\ CuentaMovimientos(movs, "COMPRA", ultima.id, "ANULACION") = 2

\* Products named by the lines of an order.
ProductosDe(dets) == { dets[i].producto : i \in 1..Len(dets) }

\* The step changes the stock of no product outside ps, adds movements of
\* the products of ps only and rewrites no earlier movement.
SoloToca(ps) ==
    /\ \A p \in Productos \ ps : stock'[p] = stock[p]
    /\ Len(movs') >= Len(movs)
    /\ SubSeq(movs', 1, Len(movs)) = movs
    /\ \A i \in (Len(movs) + 1)..Len(movs') : movs'[i].producto \in ps

\* C29: a confirm or cancel of an order changes stock_actual only for the
\* products of the order's lines, adds movements only for those products,
\* and leaves every other order (estado, total, lines) as it was.
C29_MarcoDeLaTransicion ==
    [][ /\ \A c \in DOMAIN compras :
             (Atendida("confirmar_compra", c) \/ Atendida("anular_compra", c))
             => /\ SoloToca(ProductosDe(compras[c].detalles))
                /\ \A d \in DOMAIN compras \ {c} : compras'[d] = compras[d]
                /\ compras'[c].detalles = compras[c].detalles
                /\ compras'[c].total = compras[c].total
                /\ ventas' = ventas
        /\ \A v \in DOMAIN ventas :
             (Atendida("completar_venta", v) \/ Atendida("cancelar_venta", v))
             => /\ SoloToca(ProductosDe(ventas[v].detalles))
                /\ \A x \in DOMAIN ventas \ {v} : x \in DOMAIN ventas' /\ ventas'[x] = ventas[x]
                /\ ventas'[v].detalles = ventas[v].detalles
                /\ ventas'[v].total = ventas[v].total
                /\ compras' = compras ]_vars

\* C29 witness: a sale of one product has just been completed while a
\* purchase exists; the stock of the other product is the initial one.
C29_Testigo ==
    /\ ultima = Resultado("completar_venta", ultima.id, "ok")
    /\ Len(compras) >= 1
    /\ Cardinality(ProductosDe(ventas[ultima.id].detalles)) = 1
    /\ \E p \in Productos \ ProductosDe(ventas[ultima.id].detalles) : stock[p] = StockSurtido

====
